---- MODULE Spec2Model ----
(***************************************************************************)
(* A model of hippopt's OptiSolver (src/hippopt/base/opti_solver.py): the  *)
(* session facade over a casadi Opti instance, its object generator, its   *)
(* initial-guess binder and its solution extractor.                        *)
(*                                                                         *)
(* Python values are records tagged by k:                                  *)
(*   [k |-> "none"]                         None                           *)
(*   [k |-> "arr",  shape |-> <<..>>]       a numpy array of that shape    *)
(*   [k |-> "plain", d |-> ..]              any other plain value          *)
(*   [k |-> "obj",  f |-> <<field, ..>>, at] an OptimizationObject dataclass *)
(*   [k |-> "list", e |-> <<value, ..>>, at] a Python list                 *)
(*   [k |-> "mx",   id, st, shape]          a casadi symbol of the solver  *)
(* A field is [name, tag, v]; tag is the StorageType metadata of the       *)
(* dataclass field: "variable", "parameter", "other" (a storage type that  *)
(* is neither) or "none" (no storage metadata).                            *)
(*                                                                         *)
(* Beside the session the module models two utilities of robot_planning    *)
(* that hold state of their own: SmoothTerrain (utilities/smooth_terrain.py)*)
(* and FootContactStatePlotter (utilities/foot_contact_state_plotter.py).  *)
(***************************************************************************)
EXTENDS Integers, Sequences, FiniteSets, TLC

VARIABLES
    _cost,             \* OptiSolver._cost
    _solver,           \* OptiSolver._solver: the state of the casadi Opti
    _opti_solution,    \* OptiSolver._opti_solution
    _output_solution,  \* OptiSolver._output_solution
    _output_cost,      \* OptiSolver._output_cost
    _variables,        \* OptiSolver._variables
    _options,          \* OptiSolver._inner_solver, _options_plugin, _options_solver
    last,              \* the last call made on the session, how it ended, the
                       \* engine calls it made and whose objects it assigned to
    terrain,           \* a SmoothTerrain: its five stored parameters and the
                       \* height function its base class has cached
    plotter,           \* a FootContactStatePlotter: its _ext_process handle and
                       \* the processes it has started
    hist               \* history of the session: has a solve() returned normally,
                       \* has a generate call, where _variables comes from
                       \* ("generated": a generate call that returned normally,
                       \* "leftover": one that raised), and the expressions
                       \* given to add_cost so far

vars == <<_cost, _solver, _opti_solution, _output_solution, _output_cost,
          _variables, _options, terrain, plotter, last, hist>>

-----------------------------------------------------------------------------
(* Bounds of the model *)

MaxSymbols == 4
MaxSolves == 2
MaxCostTerms == 2
MaxConstraints == 2
MaxProcesses == 3
MaxArguments == 2

-----------------------------------------------------------------------------
(* Python values *)

None == [k |-> "none"]
Arr(shape) == [k |-> "arr", shape |-> shape]
Plain(d) == [k |-> "plain", d |-> d]
\* a dataclass instance and a list are objects of the heap; at tells whose:
\* "caller" for what the caller built, "copy" for what copy.deepcopy (or the
\* session itself) built
ObjAt(fields, at) == [k |-> "obj", f |-> fields, at |-> at]
ListAt(elems, at) == [k |-> "list", e |-> elems, at |-> at]
Obj(fields) == ObjAt(fields, "caller")
List(elems) == ListAt(elems, "caller")
MX(id, st, shape) == [k |-> "mx", id |-> id, st |-> st, shape |-> shape]
Fld(name, tag, v) == [name |-> name, tag |-> tag, v |-> v]

VariableTag == "variable"
ParameterTag == "parameter"

IsObj(v) == v.k = "obj"
IsList(v) == v.k = "list"
IsNdarray(v) == v.k = "arr"

\* an exception raised by a call, or its normal return
Raise(type, msg, field) == [type |-> type, msg |-> msg, field |-> field]
NoError == Raise("ok", "", "")
Failed(e) == e.type # "ok"

-----------------------------------------------------------------------------
(* The object generator *)

\* the result of a generator call: how it ended, what it returned, the
\* solver's symbol list and the session's _variables as the call left them, and
\* the owners of the objects whose attributes or elements the call assigned
GenResult(err, out, symbols, variables, written) ==
    [err |-> err, out |-> out, symbols |-> symbols, variables |-> variables,
     written |-> written]

\* cs.Opti.variable(r, c) / cs.Opti.parameter(r, c): a fresh symbol, appended
\* to the symbols the solver knows
NewSymbol(symbols, st, shape) == MX(Len(symbols) + 1, st, shape)

\* np.expand_dims(value, axis=1) on a 1-D array
ExpandDims(shape) == <<shape[1], 1>>

HasShape(value) == value.k \in {"arr", "mx"}

\* a deepcopy that hands back the very object it was given
deepcopy_aliasing(v) == v

\* copy.deepcopy: the same values in objects of its own, at every depth
RECURSIVE deepcopy(_)
deepcopy(v) ==
    IF IsObj(v)
    THEN ObjAt([i \in 1..Len(v.f) |-> [v.f[i] EXCEPT !.v = deepcopy(@)]], "copy")
    ELSE IF IsList(v)
    THEN ListAt([i \in 1..Len(v.e) |-> deepcopy(v.e[i])], "copy")
    ELSE v

\* a _generate_opti_object that asks the solver for a column of the array's
\* first dimension, whatever its second
_generate_opti_object_as_column(symbols, storage_type, name, value) ==
    IF value = None
    THEN GenResult(Raise("ValueError", "storage_is_none", name), None, symbols, None, {})
    ELSE IF IsNdarray(value) /\ Len(value.shape) > 2
    THEN GenResult(Raise("ValueError", "ndim_greater_than_2", name), None, symbols,
                   None, {})
    ELSE IF IsNdarray(value) /\ Len(value.shape) = 0
    THEN GenResult(Raise("AxisError", "expand_dims", name), None, symbols, None, {})
    ELSE IF storage_type \in {VariableTag, ParameterTag}
    THEN IF ~HasShape(value)
         THEN GenResult(Raise("AttributeError", "shape", name), None, symbols, None, {})
         ELSE LET h == NewSymbol(symbols, storage_type, ExpandDims(value.shape))
              IN  GenResult(NoError, h, Append(symbols, h), None, {})
    ELSE GenResult(Raise("ValueError", "unsupported_storage_type", name), None, symbols,
                   None, {})

\* a _generate_opti_object that makes a decision variable of every storage
\* field, whatever its role
_generate_opti_object_all_variables(symbols, storage_type, name, value) ==
    IF value = None
    THEN GenResult(Raise("ValueError", "storage_is_none", name), None, symbols, None, {})
    ELSE IF IsNdarray(value) /\ Len(value.shape) > 2
    THEN GenResult(Raise("ValueError", "ndim_greater_than_2", name), None, symbols,
                   None, {})
    ELSE IF IsNdarray(value) /\ Len(value.shape) = 0
    THEN GenResult(Raise("AxisError", "expand_dims", name), None, symbols, None, {})
    ELSE IF ~HasShape(value)
    THEN GenResult(Raise("AttributeError", "shape", name), None, symbols, None, {})
    ELSE LET shape == IF Len(value.shape) < 2 THEN ExpandDims(value.shape)
                                              ELSE value.shape
             h == NewSymbol(symbols, VariableTag, shape)
         IN  GenResult(NoError, h, Append(symbols, h), None, {})

_generate_opti_object(symbols, storage_type, name, value) ==
    IF value = None
    THEN GenResult(Raise("ValueError", "storage_is_none", name), None, symbols, None, {})
    ELSE IF IsNdarray(value) /\ Len(value.shape) > 2
    THEN GenResult(Raise("ValueError", "ndim_greater_than_2", name), None, symbols,
                   None, {})
    ELSE IF IsNdarray(value) /\ Len(value.shape) = 0
    THEN GenResult(Raise("AxisError", "expand_dims", name), None, symbols, None, {})
    ELSE IF storage_type \in {VariableTag, ParameterTag}
    THEN IF ~HasShape(value)
         THEN GenResult(Raise("AttributeError", "shape", name), None, symbols, None, {})
         ELSE LET shape == IF Len(value.shape) < 2 THEN ExpandDims(value.shape)
                                                   ELSE value.shape
                  h == NewSymbol(symbols, storage_type, shape)
              IN  GenResult(NoError, h, Append(symbols, h), None, {})
    ELSE GenResult(Raise("ValueError", "unsupported_storage_type", name), None, symbols,
                   None, {})

\* the loop of lines 113-122 over value_list, from its j-th value on
RECURSIVE StorageLoop(_, _, _, _, _, _)
StorageLoop(value_list, j, storage_type, name, symbols, output_value) ==
    IF j > Len(value_list)
    THEN GenResult(NoError, output_value, symbols, None, {})
    ELSE LET r == _generate_opti_object(symbols, storage_type, name, value_list[j])
         IN  IF Failed(r.err) THEN r
             ELSE StorageLoop(value_list, j + 1, storage_type, name, r.symbols,
                              Append(output_value, r.out))

\* all(isinstance(elem, OptimizationObject) or isinstance(elem, list) ...)
GenListOfObjects(v) ==
    IsList(v) /\ \A i \in 1..Len(v.e) : IsObj(v.e[i]) \/ IsList(v.e[i])

SetField(fields, i, v) == [fields EXCEPT ![i].v = v]

\* what the generator takes a field for (lines 91-106): the value is looked
\* at first, the storage metadata second
GeneratorRole(field) ==
    IF IsObj(field.v) \/ GenListOfObjects(field.v) THEN "composite"
    ELSE IF field.tag # "none" THEN "storage"
    ELSE "ignored"

RECURSIVE generate_optimization_objects(_, _, _, _)
RECURSIVE InstanceLoop(_, _, _, _, _)
RECURSIVE ListLoop(_, _, _, _, _)

\* the loop of lines 88-127 over the fields of the object output, from its i-th
\* field on; output.__setattr__ assigns an attribute of that object
InstanceLoop(output, i, symbols, variables, written) ==
    IF i > Len(output.f)
    THEN GenResult(NoError, output, symbols, variables, written)
    ELSE LET field == output.f[i]
             composite_value == field.v
         IN  IF IsObj(composite_value) \/ GenListOfObjects(composite_value)
             THEN LET r == generate_optimization_objects(composite_value, symbols,
                                                         variables, written)
                  IN  IF Failed(r.err) THEN r
                      ELSE InstanceLoop([output EXCEPT !.f = SetField(@, i, r.out)],
                                        i + 1, r.symbols, r.variables,
                                        r.written \cup {output.at})
             ELSE IF field.tag # "none"
             THEN LET value_list == IF IsList(composite_value) THEN composite_value.e
                                    ELSE <<composite_value>>
                      r == StorageLoop(value_list, 1, field.tag, field.name, symbols, <<>>)
                  IN  IF Failed(r.err)
                      THEN GenResult(r.err, None, r.symbols, variables, written)
                      ELSE InstanceLoop(
                               [output EXCEPT !.f =
                                   SetField(@, i, IF IsList(composite_value)
                                                  THEN ListAt(r.out, "copy")
                                                  ELSE r.out[1])],
                               i + 1, r.symbols, variables, written \cup {output.at})
             ELSE InstanceLoop(output, i + 1, symbols, variables, written)

\* a generator that forgets line 129: the session keeps what the recursion left
\* in _variables
_generate_objects_from_instance_untracked(input_structure, symbols, variables, written) ==
    InstanceLoop(deepcopy(input_structure), 1, symbols, variables, written)

\* line 129, self._variables = output, is reached only when the loop ends
_generate_objects_from_instance(input_structure, symbols, variables, written) ==
    LET r == InstanceLoop(deepcopy(input_structure), 1, symbols, variables, written)
    IN  IF Failed(r.err) THEN r ELSE [r EXCEPT !.variables = r.out]

\* a loop over range(len(output) - 1): the last element is left as copied
ListLoop_off_by_one(output, i, symbols, variables, written) ==
    IF i > Len(output.e) - 1
    THEN GenResult(NoError, output, symbols, variables, written)
    ELSE LET r == generate_optimization_objects(output.e[i], symbols, variables, written)
         IN  IF Failed(r.err) THEN r
             ELSE ListLoop([output EXCEPT !.e[i] = r.out], i + 1, r.symbols,
                           r.variables, r.written \cup {output.at})

\* the loop of lines 138-139 over the list output, from its i-th element on;
\* output[i] = ... assigns an element of that list
ListLoop(output, i, symbols, variables, written) ==
    IF i > Len(output.e)
    THEN GenResult(NoError, output, symbols, variables, written)
    ELSE LET r == generate_optimization_objects(output.e[i], symbols, variables, written)
         IN  IF Failed(r.err) THEN r
             ELSE ListLoop([output EXCEPT !.e[i] = r.out], i + 1, r.symbols,
                           r.variables, r.written \cup {output.at})

_generate_objects_from_list(input_structure, symbols, variables, written) ==
    IF ~IsList(input_structure)
    THEN GenResult(Raise("AssertionError", "not_a_list", ""), None, symbols, variables,
                   written)
    ELSE LET r == ListLoop(deepcopy(input_structure), 1, symbols, variables, written)
         IN  IF Failed(r.err) THEN r ELSE [r EXCEPT !.variables = r.out]

generate_optimization_objects(input_structure, symbols, variables, written) ==
    IF IsObj(input_structure)
    THEN _generate_objects_from_instance(input_structure, symbols, variables, written)
    ELSE _generate_objects_from_list(input_structure, symbols, variables, written)

-----------------------------------------------------------------------------
(* The solution extractor *)

\* the shape of the numpy array OptiSol.value gives for a symbol of that shape
EngineValueShape(shape) ==
    IF shape = <<1, 1>> THEN <<>>
    ELSE IF shape[2] = 1 THEN <<shape[1]>>
    ELSE shape

\* np.array(self._opti_solution.value(var)): the value of a symbol in the
\* solution sol; anything that is no symbol (a list of symbols, the dict of a
\* composite) is refused by the engine
SolutionValue(sol, var) ==
    IF var.k = "mx"
    THEN [err |-> NoError,
          out |-> [k |-> "arr", shape |-> EngineValueShape(var.shape),
                   sol |-> sol, of |-> var.id]]
    ELSE [err |-> Raise("NotImplementedError", "OptiSol_value", ""), out |-> None]

\* all(isinstance(elem, OptimizationObject) for elem in ...)
ListOfObjects(v) == IsList(v) /\ \A i \in 1..Len(v.e) : IsObj(v.e[i])

\* what the extractor takes a field for (lines 159-185): the storage metadata
\* is looked at first, the value second
ExtractorRole(field) ==
    IF field.tag \in {VariableTag, ParameterTag} THEN "storage"
    ELSE IF IsObj(field.v) \/ ListOfObjects(field.v) THEN "composite"
    ELSE "ignored"

RECURSIVE _generate_solution_output(_, _)
RECURSIVE SolutionListLoop(_, _, _)
RECURSIVE SolutionFieldLoop(_, _, _)

\* the loop of lines 152-154
SolutionListLoop(output, i, sol) ==
    IF i > Len(output)
    THEN [err |-> NoError, out |-> ListAt(output, "copy")]
    ELSE LET r == _generate_solution_output(output[i], sol)
         IN  IF Failed(r.err) THEN r
             ELSE SolutionListLoop([output EXCEPT ![i] = r.out], i + 1, sol)

\* the loop of lines 158-188; output starts as a copy of the fields of variables,
\* and a field already replaced is never read again
SolutionFieldLoop(output, i, sol) ==
    IF i > Len(output)
    THEN [err |-> NoError, out |-> ObjAt(output, "copy")]
    ELSE LET field == output[i]
         IN  IF field.tag \in {VariableTag, ParameterTag}
             THEN LET r == SolutionValue(sol, field.v)
                  IN  IF Failed(r.err) THEN r
                      ELSE SolutionFieldLoop(SetField(output, i, r.out), i + 1, sol)
             ELSE IF IsObj(field.v) \/ ListOfObjects(field.v)
             THEN LET r == _generate_solution_output(field.v, sol)
                  IN  IF Failed(r.err) THEN r
                      ELSE SolutionFieldLoop(SetField(output, i, r.out), i + 1, sol)
             ELSE SolutionFieldLoop(output, i + 1, sol)

_generate_solution_output(variables, sol) ==
    IF IsList(variables)
    THEN SolutionListLoop(deepcopy(variables).e, 1, sol)
    ELSE IF ~IsObj(variables)
    THEN [err |-> Raise("TypeError", "dataclasses_fields", ""), out |-> None]
    ELSE SolutionFieldLoop(deepcopy(variables).f, 1, sol)

-----------------------------------------------------------------------------
(* The initial-guess binder *)

\* hasattr(obj, name) and obj.__getattribute__(name), for the field names of
\* the model: only a dataclass instance has them
HasAttr(obj, name) == IsObj(obj) /\ \E i \in 1..Len(obj.f) : obj.f[i].name = name
GetAttr(obj, name) == obj.f[CHOOSE i \in 1..Len(obj.f) : obj.f[i].name = name].v

\* one engine call made by the binder: cs.Opti.set_initial or cs.Opti.set_value
Push(call, symbol, guess) == [call |-> call, id |-> symbol.id, guess |-> guess]

\* the result of a binder call: how it ended and the engine calls it made
BindResult(err, pushed) == [err |-> err, pushed |-> pushed]

\* cs.Opti.set_initial takes a decision variable and cs.Opti.set_value a
\* parameter of the solver
EngineAccepts(call, symbol) ==
    /\ symbol.k = "mx"
    /\ symbol.st = (IF call = "set_initial" THEN VariableTag ELSE ParameterTag)

\* a binder that validates a guess and then forgets the engine call
BindStorageField_not_pushing(field, corresponding_variable, call, pushed) ==
    LET guess == field.v
    IN  IF guess = None
        THEN BindResult(NoError, pushed)
        ELSE IF ~IsNdarray(guess)
        THEN BindResult(Raise("ValueError", "not_a_numpy_array", field.name), pushed)
        ELSE IF ~HasAttr(corresponding_variable, field.name)
        THEN BindResult(Raise("ValueError", "field_not_present", field.name), pushed)
        ELSE LET corresponding_value == GetAttr(corresponding_variable, field.name)
             IN  IF Len(guess.shape) = 0
                 THEN BindResult(Raise("IndexError", "tuple_index_out_of_range", ""),
                                 pushed)
                 ELSE IF ~HasShape(corresponding_value)
                 THEN BindResult(Raise("AttributeError", "shape", ""), pushed)
                 ELSE LET input_shape == IF Len(guess.shape) > 1 THEN guess.shape
                                         ELSE <<guess.shape[1], 1>>
                      IN  IF corresponding_value.shape # input_shape
                          THEN BindResult(Raise("ValueError", "dimension_does_not_match",
                                                field.name), pushed)
                          ELSE BindResult(NoError, pushed)

\* lines 206-240 (a Variable field, call = "set_initial") and lines 248-282 (a
\* Parameter field, call = "set_value"): the two branches differ in the engine
\* call only
BindStorageField(field, corresponding_variable, call, pushed) ==
    LET guess == field.v
    IN  IF guess = None
        THEN BindResult(NoError, pushed)
        ELSE IF ~IsNdarray(guess)
        THEN BindResult(Raise("ValueError", "not_a_numpy_array", field.name), pushed)
        ELSE IF ~HasAttr(corresponding_variable, field.name)
        THEN BindResult(Raise("ValueError", "field_not_present", field.name), pushed)
        ELSE LET corresponding_value == GetAttr(corresponding_variable, field.name)
             IN  IF Len(guess.shape) = 0
                 THEN BindResult(Raise("IndexError", "tuple_index_out_of_range", ""),
                                 pushed)
                 ELSE IF ~HasShape(corresponding_value)
                 THEN BindResult(Raise("AttributeError", "shape", ""), pushed)
                 ELSE LET input_shape == IF Len(guess.shape) > 1 THEN guess.shape
                                         ELSE <<guess.shape[1], 1>>
                      IN  IF corresponding_value.shape # input_shape
                          THEN BindResult(Raise("ValueError", "dimension_does_not_match",
                                                field.name), pushed)
                          ELSE IF ~EngineAccepts(call, corresponding_value)
                          THEN BindResult(Raise("RuntimeError", call, ""), pushed)
                          ELSE BindResult(NoError,
                                   Append(pushed, Push(call, corresponding_value, guess)))

\* what the binder takes a field of the guess for (lines 199-309)
BinderRole(field) ==
    IF field.tag \in {VariableTag, ParameterTag} THEN "storage"
    ELSE IF IsObj(field.v) \/ ListOfObjects(field.v) THEN "composite"
    ELSE "ignored"

RECURSIVE _set_initial_guess_internal(_, _, _)
RECURSIVE BindFieldLoop(_, _, _, _)
RECURSIVE BindListLoop(_, _, _, _, _)

\* a loop that stops at the end of the symbolic list instead of raising
BindListLoop_truncating(guess_list, i, corresponding_nested_variable, name, pushed) ==
    IF i > Len(guess_list) \/ i > Len(corresponding_nested_variable)
    THEN BindResult(NoError, pushed)
    ELSE LET r == _set_initial_guess_internal(guess_list[i],
                                              corresponding_nested_variable[i], pushed)
         IN  IF Failed(r.err) THEN r
             ELSE BindListLoop(guess_list, i + 1, corresponding_nested_variable,
                               name, r.pushed)

\* the loop of lines 328-340 over the guess list of the field name
BindListLoop(guess_list, i, corresponding_nested_variable, name, pushed) ==
    IF i > Len(guess_list)
    THEN BindResult(NoError, pushed)
    ELSE IF i > Len(corresponding_nested_variable)
    THEN BindResult(Raise("ValueError", "guess_list_too_long", name), pushed)
    ELSE LET r == _set_initial_guess_internal(guess_list[i],
                                              corresponding_nested_variable[i], pushed)
         IN  IF Failed(r.err) THEN r
             ELSE BindListLoop(guess_list, i + 1, corresponding_nested_variable,
                               name, r.pushed)

\* the loop of lines 198-340 over the fields of initial_guess
BindFieldLoop(fields, i, corresponding_variable, pushed) ==
    IF i > Len(fields)
    THEN BindResult(NoError, pushed)
    ELSE LET field == fields[i]
             r == IF field.tag = VariableTag
                  THEN BindStorageField(field, corresponding_variable, "set_initial",
                                        pushed)
                  ELSE IF field.tag = ParameterTag
                  THEN BindStorageField(field, corresponding_variable, "set_value",
                                        pushed)
                  ELSE IF IsObj(field.v)
                  THEN IF ~HasAttr(corresponding_variable, field.name)
                       THEN BindResult(Raise("ValueError", "field_not_present",
                                             field.name), pushed)
                       ELSE _set_initial_guess_internal(
                                field.v, GetAttr(corresponding_variable, field.name),
                                pushed)
                  ELSE IF ListOfObjects(field.v)
                  THEN IF ~HasAttr(corresponding_variable, field.name)
                       THEN BindResult(Raise("ValueError", "field_not_present",
                                             field.name), pushed)
                       ELSE IF ~IsList(GetAttr(corresponding_variable, field.name))
                       THEN BindResult(Raise("ValueError", "structure_is_not_a_list",
                                             field.name), pushed)
                       ELSE BindListLoop(field.v.e, 1,
                                         GetAttr(corresponding_variable, field.name).e,
                                         field.name, pushed)
                  ELSE BindResult(NoError, pushed)
         IN  IF Failed(r.err) THEN r
             ELSE BindFieldLoop(fields, i + 1, corresponding_variable, r.pushed)

_set_initial_guess_internal(initial_guess, corresponding_variable, pushed) ==
    IF ~IsObj(initial_guess)
    THEN BindResult(Raise("TypeError", "dataclasses_fields", ""), pushed)
    ELSE BindFieldLoop(initial_guess.f, 1, corresponding_variable, pushed)

RECURSIVE GuessListLoop(_, _, _, _)

\* a loop that never advances i: every guess element is bound to the first
\* element of the live list
GuessListLoop_not_advancing(guess_list, i, variables, pushed) ==
    IF i > Len(guess_list)
    THEN BindResult(NoError, pushed)
    ELSE IF i > Len(variables)
    THEN BindResult(Raise("ValueError", "guess_is_a_list", ""), pushed)
    ELSE LET r == _set_initial_guess_internal(guess_list[i], variables[1], pushed)
         IN  IF Failed(r.err) THEN r
             ELSE GuessListLoop(guess_list, i + 1, variables, r.pushed)

\* the loop of lines 372-381 over a top-level guess list
GuessListLoop(guess_list, i, variables, pushed) ==
    IF i > Len(guess_list)
    THEN BindResult(NoError, pushed)
    ELSE IF i > Len(variables)
    THEN BindResult(Raise("ValueError", "guess_is_a_list", ""), pushed)
    ELSE LET r == _set_initial_guess_internal(guess_list[i], variables[i], pushed)
         IN  IF Failed(r.err) THEN r
             ELSE GuessListLoop(guess_list, i + 1, variables, r.pushed)

set_initial_guess(initial_guess, variables) ==
    IF IsList(initial_guess)
    THEN IF ~IsList(variables)
         THEN BindResult(Raise("ValueError", "guess_is_a_list", ""), <<>>)
         ELSE GuessListLoop(initial_guess.e, 1, variables.e, <<>>)
    ELSE _set_initial_guess_internal(initial_guess, variables, <<>>)

-----------------------------------------------------------------------------
(* The session: the fields of an OptiSolver as one record, and its methods   *)
(* as operators from the session a call finds to the session it leaves       *)

self == [cost |-> _cost, solver |-> _solver, opti_solution |-> _opti_solution,
         output_solution |-> _output_solution, output_cost |-> _output_cost,
         variables |-> _variables, options |-> _options]

\* the outcome of a call: how it ended, what it returned, the session it left,
\* the engine calls set_initial / set_value it made and the owners of the
\* objects it assigned to
Outcome(err, ret, s, pushed) ==
    [err |-> err, ret |-> ret, s |-> s, pushed |-> pushed, written |-> {}]

DefaultSolverType == Plain("ipopt")

\* __post_init__ with no options given: the Opti instance is created and the
\* options are applied to it
PostInit ==
    LET options == [inner_solver |-> DefaultSolverType, options_plugin |-> Plain("{}"),
                    options_solver |-> Plain("{}")]
    IN  [cost |-> None,
         solver |-> [objective |-> None, constraints |-> <<>>, symbols |-> <<>>,
                     initial |-> {}, solves |-> 0, options |-> options],
         opti_solution |-> None, output_solution |-> None, output_cost |-> None,
         variables |-> None, options |-> options]

\* a cost expression is the sequence of the terms summed into it
Expr(terms) == [k |-> "expr", terms |-> terms]

\* an add_cost that stores the expression given instead of adding it
add_cost_replacing(s, input_cost) ==
    Outcome(NoError, None, [s EXCEPT !.cost = Expr(<<input_cost>>)], <<>>)

add_cost(s, input_cost) ==
    IF s.cost = None
    THEN Outcome(NoError, None, [s EXCEPT !.cost = Expr(<<input_cost>>)], <<>>)
    ELSE Outcome(NoError, None,
                 [s EXCEPT !.cost = Expr(Append(s.cost.terms, input_cost))], <<>>)

\* an add_constraint that keeps only the constraint given last
add_constraint_replacing(s, input_constraint) ==
    Outcome(NoError, None,
            [s EXCEPT !.solver.constraints = <<input_constraint>>], <<>>)

add_constraint(s, input_constraint) ==
    Outcome(NoError, None,
            [s EXCEPT !.solver.constraints = Append(@, input_constraint)], <<>>)

\* the top-level call: the recursion runs on the session's own _variables
generate(s, input_structure) ==
    LET r == generate_optimization_objects(input_structure, s.solver.symbols,
                                           s.variables, {})
    IN  [err |-> r.err, ret |-> IF Failed(r.err) THEN None ELSE r.out,
         s |-> [s EXCEPT !.solver.symbols = r.symbols, !.variables = r.variables],
         pushed |-> <<>>, written |-> r.written]

get_optimization_objects(s) == s.variables

\* the engine keeps, for every symbol, the value last given to it
RECURSIVE ApplyPushes(_, _, _)
ApplyPushes(initial, pushed, i) ==
    IF i > Len(pushed) THEN initial
    ELSE ApplyPushes({p \in initial : p.id # pushed[i].id} \cup {pushed[i]},
                     pushed, i + 1)

bind_guess(s, initial_guess) ==
    LET r == set_initial_guess(initial_guess, s.variables)
    IN  Outcome(r.err, None,
                [s EXCEPT !.solver.initial = ApplyPushes(@, r.pushed, 1)], r.pushed)

\* a set_opti_options that stores its arguments as given: an argument left out
\* puts back the default
set_opti_options_resetting_omitted(s, inner_solver, options_solver, options_plugin) ==
    LET options ==
            [inner_solver |-> IF inner_solver # None THEN inner_solver
                              ELSE DefaultSolverType,
             options_plugin |-> IF options_plugin # None THEN options_plugin
                                ELSE Plain("{}"),
             options_solver |-> IF options_solver # None THEN options_solver
                                ELSE Plain("{}")]
    IN  Outcome(NoError, None,
                [s EXCEPT !.options = options, !.solver.options = options], <<>>)

\* an argument left out (None) keeps the stored option
set_opti_options(s, inner_solver, options_solver, options_plugin) ==
    LET options ==
            [inner_solver |-> IF inner_solver # None THEN inner_solver
                              ELSE s.options.inner_solver,
             options_plugin |-> IF options_plugin # None THEN options_plugin
                                ELSE s.options.options_plugin,
             options_solver |-> IF options_solver # None THEN options_solver
                                ELSE s.options.options_solver]
    IN  Outcome(NoError, None,
                [s EXCEPT !.options = options, !.solver.options = options], <<>>)

\* the cs.OptiSol the n-th call of cs.Opti.solve returns
OptiSol(n) == [k |-> "optisol", n |-> n]

\* self._opti_solution.value(self._cost)
CostValue(sol, cost) == [k |-> "float", sol |-> sol, of |-> cost.terms]

\* a solve that drops the cached results before it calls the engine
solve_clearing_cache(s, engine_ok) ==
    IF s.cost = None
    THEN Outcome(Raise("NotImplementedError", "Opti_minimize", ""), None, s, <<>>)
    ELSE LET sol == OptiSol(s.solver.solves + 1)
             s1 == [s EXCEPT !.solver.objective = s.cost, !.solver.solves = sol.n,
                             !.output_solution = None, !.output_cost = None]
         IN  IF ~engine_ok
             THEN Outcome(Raise("RuntimeError", "Opti_solve", ""), None, s1, <<>>)
             ELSE LET s2 == [s1 EXCEPT !.opti_solution = sol,
                                       !.output_cost = CostValue(sol, s.cost)]
                      r == _generate_solution_output(s.variables, sol)
                  IN  IF Failed(r.err)
                      THEN Outcome(r.err, None, s2, <<>>)
                      ELSE Outcome(NoError, None,
                                   [s2 EXCEPT !.output_solution = r.out], <<>>)

\* a solve that minimises a zero cost when none was added
solve_defaulting_cost(s, engine_ok) ==
    LET cost == IF s.cost = None THEN Expr(<<>>) ELSE s.cost
        sol == OptiSol(s.solver.solves + 1)
        s1 == [s EXCEPT !.solver.objective = cost, !.solver.solves = sol.n]
    IN  IF ~engine_ok
        THEN Outcome(Raise("RuntimeError", "Opti_solve", ""), None, s1, <<>>)
        ELSE LET s2 == [s1 EXCEPT !.opti_solution = sol,
                                  !.output_cost = CostValue(sol, cost)]
                 r == _generate_solution_output(s.variables, sol)
             IN  IF Failed(r.err)
                 THEN Outcome(r.err, None, s2, <<>>)
                 ELSE Outcome(NoError, None,
                              [s2 EXCEPT !.output_solution = r.out], <<>>)

\* a solve that forgets line 409: the cost value is not recorded
solve_not_recording_cost(s, engine_ok) ==
    IF s.cost = None
    THEN Outcome(Raise("NotImplementedError", "Opti_minimize", ""), None, s, <<>>)
    ELSE LET sol == OptiSol(s.solver.solves + 1)
             s1 == [s EXCEPT !.solver.objective = s.cost, !.solver.solves = sol.n]
         IN  IF ~engine_ok
             THEN Outcome(Raise("RuntimeError", "Opti_solve", ""), None, s1, <<>>)
             ELSE LET s2 == [s1 EXCEPT !.opti_solution = sol]
                      r == _generate_solution_output(s.variables, sol)
                  IN  IF Failed(r.err)
                      THEN Outcome(r.err, None, s2, <<>>)
                      ELSE Outcome(NoError, None,
                                   [s2 EXCEPT !.output_solution = r.out], <<>>)

\* solve(): cs.Opti.minimize takes an MX and refuses None; cs.Opti.solve raises
\* when the engine fails (engine_ok is the engine's answer)
solve(s, engine_ok) ==
    IF s.cost = None
    THEN Outcome(Raise("NotImplementedError", "Opti_minimize", ""), None, s, <<>>)
    ELSE LET sol == OptiSol(s.solver.solves + 1)
             s1 == [s EXCEPT !.solver.objective = s.cost, !.solver.solves = sol.n]
         IN  IF ~engine_ok
             THEN Outcome(Raise("RuntimeError", "Opti_solve", ""), None, s1, <<>>)
             ELSE LET s2 == [s1 EXCEPT !.opti_solution = sol,
                                       !.output_cost = CostValue(sol, s.cost)]
                      r == _generate_solution_output(s.variables, sol)
                  IN  IF Failed(r.err)
                      THEN Outcome(r.err, None, s2, <<>>)
                      ELSE Outcome(NoError, None,
                                   [s2 EXCEPT !.output_solution = r.out], <<>>)

\* a get_values that solves again instead of returning the cached structure
get_values_solving_again(s) ==
    IF s.output_solution = None
    THEN Outcome(Raise("SolutionNotAvailableException", "", ""), None, s, <<>>)
    ELSE LET o == solve(s, TRUE)
         IN  Outcome(o.err, o.s.output_solution, o.s, <<>>)

get_values(s) ==
    IF s.output_solution = None
    THEN Outcome(Raise("SolutionNotAvailableException", "", ""), None, s, <<>>)
    ELSE Outcome(NoError, s.output_solution, s, <<>>)

get_cost_value(s) ==
    IF s.output_cost = None
    THEN Outcome(Raise("SolutionNotAvailableException", "", ""), None, s, <<>>)
    ELSE Outcome(NoError, s.output_cost, s, <<>>)

-----------------------------------------------------------------------------
(* SmoothTerrain: five stored parameters, set by set_terrain, and the height *)
(* function that the base class TerrainDescriptor builds on demand and keeps  *)
(* until invalidate_functions() drops it                                     *)

\* a casadi Function, as far as set_terrain looks at it
Function(name, n_in, n_out, numel_in) ==
    [k |-> "function", name |-> name, n_in |-> n_in, n_out |-> n_out,
     numel_in |-> numel_in]
IsFunction(v) == v.k = "function"
\* a Python float
Float(x) == [k |-> "float", x |-> x]
\* a numpy vector of n numbers and a 3x3 numpy matrix of the rows m
Vector(d, n) == [k |-> "arr", shape |-> <<n>>, d |-> d]
Matrix(m) == [k |-> "arr", shape |-> <<3, 3>>, m |-> m]

\* ndarray.size: the product of the shape
RECURSIVE size(_)
size(shape) == IF shape = <<>> THEN 1 ELSE Head(shape) * size(Tail(shape))

\* np.linalg.det of a 3x3 matrix
det(m) ==
    m[1][1] * (m[2][2] * m[3][3] - m[2][3] * m[3][2])
    - m[1][2] * (m[2][1] * m[3][3] - m[2][3] * m[3][1])
    + m[1][3] * (m[2][1] * m[3][2] - m[2][2] * m[3][1])

\* the matrix is refused as not invertible: its determinant or the norm of one
\* of its columns is below 1e-6, which for integer entries means zero
NotInvertible(m) ==
    \/ det(m) = 0
    \/ \E j \in 1..3 : \A i \in 1..3 : m[i][j] = 0

\* the matrix is refused as changing the z axis: |m[3][3]| is below (1 - 1e-6)
\* times the norm of the third column, which for small integer entries means
\* that the column has an x or a y component
ChangesZAxis(m) == m[1][3] # 0 \/ m[2][3] # 0

DefaultSharpness == 10
DefaultShapeFunction == Function("smooth_terrain_shape", 1, 1, 2)
DefaultTopSurfaceFunction == Function("smooth_terrain_top_surface", 1, 1, 2)
DefaultOffset == Vector("zeros", 3)
Eye == Matrix(<< <<1, 0, 0>>, <<0, 1, 0>>, <<0, 0, 1>> >>)

\* the terrain after __post_init__ with no argument given
SmoothTerrain ==
    [_shape_function |-> DefaultShapeFunction,
     _top_surface_function |-> DefaultTopSurfaceFunction,
     _sharpness |-> Float(DefaultSharpness),
     _offset |-> DefaultOffset,
     _transformation_matrix |-> Eye,
     height_function |-> None]

\* the five stored parameters of a terrain
TerrainParameters(t) ==
    <<t._shape_function, t._top_surface_function, t._sharpness, t._offset,
      t._transformation_matrix>>

\* the height function is built from the parameters stored when it is built
create_height_function(t) ==
    [k |-> "function", name |-> "smooth_terrain_height",
     of |-> TerrainParameters(t)]

\* TerrainDescriptor.height_function(): build the function unless one is kept
height_function(t) ==
    IF t.height_function = None
    THEN [t EXCEPT !.height_function = create_height_function(t)]
    ELSE t

\* TerrainDescriptor.invalidate_functions(): drop the functions kept
invalidate_functions(t) == [t EXCEPT !.height_function = None]

TerrainResult(err, t) == [err |-> err, t |-> t]

\* the five steps of set_terrain, each one checking and then storing one
\* argument; r is the result of the steps before
SetShapeFunction(r, shape_function) ==
    IF Failed(r.err) \/ ~IsFunction(shape_function) THEN r
    ELSE IF shape_function.n_in # 1
    THEN TerrainResult(Raise("ValueError", "one_input", "shape_function"), r.t)
    ELSE IF shape_function.n_out # 1
    THEN TerrainResult(Raise("ValueError", "one_output", "shape_function"), r.t)
    ELSE IF shape_function.numel_in # 2
    THEN TerrainResult(Raise("ValueError", "2d_input", "shape_function"), r.t)
    ELSE TerrainResult(NoError, [r.t EXCEPT !._shape_function = shape_function])

SetTopSurfaceFunction(r, top_surface_function) ==
    IF Failed(r.err) \/ ~IsFunction(top_surface_function) THEN r
    ELSE IF top_surface_function.n_in # 1
    THEN TerrainResult(Raise("ValueError", "one_input", "top_surface_function"), r.t)
    ELSE IF top_surface_function.n_out # 1
    THEN TerrainResult(Raise("ValueError", "one_output", "top_surface_function"), r.t)
    ELSE IF top_surface_function.numel_in # 2
    THEN TerrainResult(Raise("ValueError", "2d_input", "top_surface_function"), r.t)
    ELSE TerrainResult(NoError,
                       [r.t EXCEPT !._top_surface_function = top_surface_function])

SetSharpness(r, sharpness) ==
    IF Failed(r.err) \/ sharpness = None THEN r
    ELSE IF sharpness.x < 1
    THEN TerrainResult(Raise("ValueError", "sharpness_below_one", "sharpness"), r.t)
    ELSE TerrainResult(NoError, [r.t EXCEPT !._sharpness = sharpness])

SetOffset(r, offset) ==
    IF Failed(r.err) \/ offset = None THEN r
    ELSE IF ~IsNdarray(offset)
    THEN TerrainResult(Raise("TypeError", "not_an_array", "offset"), r.t)
    ELSE IF size(offset.shape) # 3
    THEN TerrainResult(Raise("ValueError", "not_a_3d_vector", "offset"), r.t)
    ELSE TerrainResult(NoError, [r.t EXCEPT !._offset = offset])

SetTransformationMatrix(r, transformation_matrix) ==
    IF Failed(r.err) \/ transformation_matrix = None THEN r
    ELSE IF ~IsNdarray(transformation_matrix)
    THEN TerrainResult(Raise("TypeError", "not_an_array", "transformation_matrix"),
                       r.t)
    ELSE IF transformation_matrix.shape # <<3, 3>>
    THEN TerrainResult(Raise("ValueError", "not_3x3", "transformation_matrix"), r.t)
    ELSE IF NotInvertible(transformation_matrix.m)
    THEN TerrainResult(Raise("ValueError", "not_invertible",
                             "transformation_matrix"), r.t)
    ELSE IF ChangesZAxis(transformation_matrix.m)
    THEN TerrainResult(Raise("ValueError", "changes_z_axis",
                             "transformation_matrix"), r.t)
    ELSE TerrainResult(NoError,
                       [r.t EXCEPT !._transformation_matrix = transformation_matrix])

set_terrain(t, shape_function, top_surface_function, sharpness, offset, transformation_matrix) ==
    LET r == SetTransformationMatrix(
                 SetOffset(
                     SetSharpness(
                         SetTopSurfaceFunction(
                             SetShapeFunction(TerrainResult(NoError, t),
                                              shape_function),
                             top_surface_function),
                         sharpness),
                     offset),
                 transformation_matrix)
    IN  IF Failed(r.err) THEN r
        ELSE TerrainResult(NoError, invalidate_functions(r.t))

-----------------------------------------------------------------------------
(* FootContactStatePlotter: the handle _ext_process and the processes the    *)
(* plotter has started. A process is "running" from start() on, "terminating"*)
(* once terminate() has signalled it and until it has exited, and "exited"   *)
(* afterwards; processes are numbered in the order they were started.        *)

Process(pid) == [k |-> "process", pid |-> pid]

\* the plotter after __init__
FootContactStatePlotter == [_ext_process |-> None, processes |-> <<>>]

\* a process that has not exited yet
is_alive(state) == state \in {"running", "terminating"}

\* Process.terminate() signals the process and returns without waiting for it
terminate(state) == IF state = "running" THEN "terminating" ELSE state

\* len() of a list or of an array
len(v) == IF IsList(v) THEN Len(v.e) ELSE v.shape[1]

\* the time axis used: one value per state when no axis, a single step or an
\* array of one element is given, else the axis given. A Python list has no
\* attribute size.
TimeAxis(states, time_s) ==
    IF time_s = None THEN [err |-> NoError, len |-> len(states)]
    ELSE IF time_s.k = "float" THEN [err |-> NoError, len |-> len(states)]
    ELSE IF IsList(time_s)
    THEN [err |-> Raise("AttributeError", "list_has_no_size", "time_s"), len |-> 0]
    ELSE IF size(time_s.shape) = 1 THEN [err |-> NoError, len |-> len(states)]
    ELSE [err |-> NoError, len |-> len(time_s)]

PlotResult(err, p) == [err |-> err, p |-> p]

\* the handle is cleared once the process it names has been joined
JoinTracked(p) ==
    IF p._ext_process # None THEN [p EXCEPT !._ext_process = None] ELSE p

\* plot_complementarity, from the point where join() of the tracked process,
\* if there is one, has returned
plot_complementarity(p, states, time_s, blocking) ==
    LET joined == JoinTracked(p)
        axis == TimeAxis(states, time_s)
        pid == Len(p.processes) + 1
    IN  IF Failed(axis.err) THEN PlotResult(axis.err, joined)
        ELSE IF axis.len # len(states)
        THEN PlotResult(Raise("ValueError", "different_lengths", "time_s"), joined)
        ELSE IF len(states) = 0 THEN PlotResult(NoError, joined)
        ELSE PlotResult(NoError,
                        [_ext_process |-> Process(pid),
                         processes |-> Append(p.processes,
                                              IF blocking THEN "exited"
                                              ELSE "running")])

\* close(): terminate the tracked process, if there is one, and forget it
close(p) ==
    IF p._ext_process # None
    THEN [_ext_process |-> None,
          processes |-> [p.processes EXCEPT ![p._ext_process.pid] = terminate(@)]]
    ELSE p

-----------------------------------------------------------------------------
(* The inputs the callers give *)

\* a record with a Variable x, a Parameter p and a plain field n
TplFlat ==
    Obj(<<Fld("x", VariableTag, Arr(<<4>>)), Fld("p", ParameterTag, Arr(<<1, 1>>)),
          Fld("n", "none", Plain(0))>>)

TplInner == Obj(<<Fld("x", VariableTag, Arr(<<4>>))>>)

\* a nested composite followed by a storage field
TplNested ==
    Obj(<<Fld("inner", "none", TplInner), Fld("y", VariableTag, Arr(<<2, 2>>))>>)

\* the same with no value in the storage field that follows the composite
TplNestedBad ==
    Obj(<<Fld("inner", "none", TplInner), Fld("y", VariableTag, None)>>)

\* a top-level list of structures
TplList == List(<<TplInner, TplInner>>)

Templates == {TplFlat, TplNested, TplNestedBad, TplList}

GuessFlat ==
    Obj(<<Fld("x", VariableTag, Arr(<<4>>)), Fld("p", ParameterTag, Arr(<<1, 1>>)),
          Fld("n", "none", Plain(0))>>)

\* no guess supplied for any leaf
GuessFlatNone ==
    Obj(<<Fld("x", VariableTag, None), Fld("p", ParameterTag, None),
          Fld("n", "none", Plain(0))>>)

\* a (3,1) guess for the (4,1) leaf x
GuessShortX ==
    Obj(<<Fld("x", VariableTag, Arr(<<3, 1>>)), Fld("p", ParameterTag, None),
          Fld("n", "none", Plain(0))>>)

\* a good guess for x followed by a (2,1) guess for the (1,1) leaf p
GuessBadP ==
    Obj(<<Fld("x", VariableTag, Arr(<<4, 1>>)), Fld("p", ParameterTag, Arr(<<2>>)),
          Fld("n", "none", Plain(0))>>)

\* a 0-d array, np.array(5.0), as the guess of p
GuessScalarP ==
    Obj(<<Fld("x", VariableTag, None), Fld("p", ParameterTag, Arr(<<>>)),
          Fld("n", "none", Plain(0))>>)

GuessInner == Obj(<<Fld("x", VariableTag, Arr(<<4>>))>>)

GuessNested ==
    Obj(<<Fld("inner", "none", GuessInner), Fld("y", VariableTag, Arr(<<2, 2>>))>>)

GuessList == List(<<GuessInner>>)

Guesses == {GuessFlat, GuessFlatNone, GuessShortX, GuessBadP, GuessScalarP,
            GuessInner, GuessNested, GuessList}

\* a list-of-composite field of three elements
TplListField ==
    Obj(<<Fld("steps", "none", List(<<TplInner, TplInner, TplInner>>)),
          Fld("n", "none", Plain(0))>>)

\* the same guess as GuessInner, given as a column
GuessInnerCol == Obj(<<Fld("x", VariableTag, Arr(<<4, 1>>))>>)

GuessInnerNone == Obj(<<Fld("x", VariableTag, None)>>)

GuessSteps(elems) == Obj(<<Fld("steps", "none", List(elems)), Fld("n", "none", Plain(0))>>)

GuessSteps1 == GuessSteps(<<GuessInnerCol>>)
GuessSteps2 == GuessSteps(<<GuessInnerNone, GuessInner>>)
GuessSteps3 == GuessSteps(<<GuessInner, GuessInnerCol, GuessInner>>)
GuessSteps4 == GuessSteps(<<GuessInner, GuessInnerCol, GuessInner, GuessInner>>)

GuessList2 == List(<<GuessInnerCol, GuessInner>>)
GuessList3 == List(<<GuessInner, GuessInnerCol, GuessInner>>)

\* the inputs of the runs over lists
ListTemplates == {TplListField, TplList, TplFlat, TplNested}
ListGuesses == {GuessSteps1, GuessSteps2, GuessSteps3, GuessSteps4,
                GuessList, GuessList2, GuessList3,
                GuessFlat, GuessFlatNone, GuessNested}

\* a record of plain fields only: a number, an untagged array, a list of numbers
TplPlain ==
    Obj(<<Fld("n", "none", Plain(0)), Fld("a", "none", Arr(<<3>>)),
          Fld("gains", "none", List(<<Plain(1), Plain(2)>>))>>)

\* a record of plain fields only, one of them a list of lists of numbers
TplPlainMatrix ==
    Obj(<<Fld("n", "none", Plain(0)),
          Fld("m", "none", List(<<List(<<Plain(1), Plain(2)>>)>>))>>)

\* a storage field of rank 3 after a good one
TplRank3 ==
    Obj(<<Fld("a", ParameterTag, Arr(<<3>>)), Fld("x", VariableTag, Arr(<<2, 2, 2>>))>>)

\* a storage field whose storage type is neither Variable nor Parameter
TplOtherRole ==
    Obj(<<Fld("a", VariableTag, Arr(<<2>>)), Fld("z", "other", Arr(<<2>>))>>)

\* storage-tagged fields holding a composite and a list of composites
TplStorageComposite == Obj(<<Fld("c", VariableTag, TplInner)>>)
TplStorageCompositeList == Obj(<<Fld("c", ParameterTag, List(<<TplInner>>))>>)

\* a storage field holding a list of arrays
TplStorageList ==
    Obj(<<Fld("w", ParameterTag, List(<<Arr(<<2>>), Arr(<<1, 3>>)>>))>>)

\* a field holding a list of lists of composites
TplListOfLists == Obj(<<Fld("grid", "none", List(<<List(<<TplInner>>)>>))>>)

\* the inputs of the runs of the generator
GenTemplates == {TplFlat, TplNested, TplNestedBad, TplList, TplListField, TplPlain,
                 TplPlainMatrix, TplRank3, TplOtherRole, TplStorageComposite,
                 TplStorageCompositeList, TplStorageList, TplListOfLists}

\* the inputs of the runs of the generator and the extractor
ExtractTemplates == {TplNested, TplList, TplListField, TplListOfLists, TplPlain,
                     TplStorageComposite, TplStorageList}

\* the inputs given in the runs of the whole session
SessionTemplates == {TplFlat, TplNested}
SessionGuesses == {GuessFlat, GuessFlatNone}
SessionCostTerms == {"a"}

CostTerms == {"a", "b"}
Constraints == {"g"}
ConfigConstraints == {"g", "h"}
InnerSolvers == {None, Plain("sqpmethod")}
OptionMaps == {None, Plain("{tol}")}


\* arguments of set_terrain: each one omitted, acceptable or refused
ShapeFunctions == {None, Function("g", 1, 1, 2), Function("g", 2, 1, 2)}
TopSurfaceFunctions == {None, Function("pi", 1, 1, 2), Function("pi", 1, 1, 3)}
Sharpnesses == {None, Float(2), Float(0)}
Offsets == {None, Vector("o", 3), Vector("o", 2), Plain("o")}
Scaling == Matrix(<< <<2, 0, 0>>, <<0, 2, 0>>, <<0, 0, 1>> >>)
Singular == Matrix(<< <<1, 0, 0>>, <<1, 0, 0>>, <<0, 0, 1>> >>)
RotationAboutX == Matrix(<< <<1, 0, 0>>, <<0, 0, -1>>, <<0, 1, 0>> >>)
TransformationMatrices == {None, Scaling, Singular, RotationAboutX}

\* arguments of plot_complementarity: lists of 0, 1 and 2 states, and time
\* axes that are omitted, a step, arrays and a list
FootStates(n) == List([i \in 1..n |-> Plain(i)])
StateLists == {FootStates(0), FootStates(1), FootStates(2)}
TimeAxes == {None, Float(1), Arr(<<1>>), Arr(<<2>>), List(<<Float(0), Float(1)>>)}

-----------------------------------------------------------------------------
(* The state machine: one action per method of the session *)

Init ==
    /\ _cost = PostInit.cost
    /\ _solver = PostInit.solver
    /\ _opti_solution = PostInit.opti_solution
    /\ _output_solution = PostInit.output_solution
    /\ _output_cost = PostInit.output_cost
    /\ _variables = PostInit.variables
    /\ _options = PostInit.options
    /\ terrain = SmoothTerrain
    /\ plotter = FootContactStatePlotter
    /\ last = [op |-> "__post_init__", arg |-> None, err |-> NoError, ret |-> None,
               pushed |-> <<>>, written |-> {}]
    /\ hist = [solved |-> FALSE, generated |-> FALSE, live |-> "none", costs |-> <<>>]

\* the call op(arg) ended as the outcome o says
Called(op, arg, o) ==
    /\ _cost' = o.s.cost
    /\ _solver' = o.s.solver
    /\ _opti_solution' = o.s.opti_solution
    /\ _output_solution' = o.s.output_solution
    /\ _output_cost' = o.s.output_cost
    /\ _variables' = o.s.variables
    /\ _options' = o.s.options
    /\ UNCHANGED <<terrain, plotter>>
    /\ last' = [op |-> op, arg |-> arg, err |-> o.err, ret |-> o.ret,
                pushed |-> o.pushed, written |-> o.written]
    /\ hist' = [solved |-> hist.solved \/ (op = "solve" /\ ~Failed(o.err)),
                generated |-> hist.generated
                              \/ (op = "generate_optimization_objects"
                                  /\ ~Failed(o.err)),
                live |-> IF op # "generate_optimization_objects" THEN hist.live
                         ELSE IF ~Failed(o.err) THEN "generated"
                         ELSE IF o.s.variables # _variables THEN "leftover"
                         ELSE hist.live,
                costs |-> IF op = "add_cost" THEN Append(hist.costs, arg.d)
                          ELSE hist.costs]

Generate(templates) ==
    \E T \in templates :
        LET o == generate(self, T)
        IN  /\ Len(o.s.solver.symbols) <= MaxSymbols
            /\ Called("generate_optimization_objects", T, o)

AddCost(terms) ==
    \E e \in terms :
        /\ IF _cost = None THEN TRUE ELSE Len(_cost.terms) < MaxCostTerms
        /\ Called("add_cost", Plain(e), add_cost(self, e))

AddConstraintOf(constraints) ==
    \E g \in constraints :
        /\ Len(_solver.constraints) < MaxConstraints
        /\ Called("add_constraint", Plain(g), add_constraint(self, g))

AddConstraint == AddConstraintOf(Constraints)

SetInitialGuess(guesses) ==
    \E g \in guesses : Called("set_initial_guess", g, bind_guess(self, g))

\* the arguments of a set_opti_options call
OptionsArg(inner_solver, options_solver, options_plugin) ==
    [k |-> "options", inner_solver |-> inner_solver,
     options_solver |-> options_solver, options_plugin |-> options_plugin]

SetOptiOptionsWith(maps) ==
    \E inner_solver \in InnerSolvers, options_solver \in maps, options_plugin \in maps :
        Called("set_opti_options",
               OptionsArg(inner_solver, options_solver, options_plugin),
               set_opti_options(self, inner_solver, options_solver, options_plugin))

SetOptiOptions == SetOptiOptionsWith({None})

Solve ==
    \E engine_ok \in BOOLEAN :
        /\ IF _cost = None THEN TRUE ELSE _solver.solves < MaxSolves
        /\ Called("solve", None, solve(self, engine_ok))

GetValues == Called("get_values", None, get_values(self))

GetCostValue == Called("get_cost_value", None, get_cost_value(self))

Next ==
    \/ Generate(SessionTemplates)
    \/ AddCost(SessionCostTerms)
    \/ AddConstraint
    \/ SetInitialGuess(SessionGuesses)
    \/ SetOptiOptions
    \/ Solve
    \/ GetValues
    \/ GetCostValue

Spec == Init /\ [][Next]_vars

\* the generator and the binder alone, with every guess
NextGuess ==
    \/ Generate(Templates)
    \/ SetInitialGuess(Guesses)

SpecGuess == Init /\ [][NextGuess]_vars

\* the generator and the binder over lists: list-of-composite fields and
\* top-level lists
NextList ==
    \/ Generate(ListTemplates)
    \/ SetInitialGuess(ListGuesses)

SpecList == Init /\ [][NextList]_vars

\* the generator and the extractor: every kind of field, generated and solved
NextExtract ==
    \/ Generate(ExtractTemplates)
    \/ AddCost(SessionCostTerms)
    \/ Solve
    \/ GetValues
    \/ GetCostValue

SpecExtract == Init /\ [][NextExtract]_vars

\* the accumulation of the cost, among the other operations of a session
\* around one template
NextCost ==
    \/ AddCost(CostTerms)
    \/ Generate({TplFlat})
    \/ SetInitialGuess({GuessFlat})
    \/ AddConstraint
    \/ SetOptiOptions
    \/ Solve

SpecCost == Init /\ [][NextCost]_vars

\* the configuration of the solver: constraints and options, among
\* generation and solves
NextConfig ==
    \/ AddConstraintOf(ConfigConstraints)
    \/ SetOptiOptionsWith(OptionMaps)
    \/ AddCost(SessionCostTerms)
    \/ Generate({TplFlat})
    \/ Solve

SpecConfig == Init /\ [][NextConfig]_vars

\* the generator alone, with every template
NextGen == Generate(GenTemplates)

SpecGen == Init /\ [][NextGen]_vars

\* the calls on a SmoothTerrain

\* how many of the arguments are given
RECURSIVE Given(_)
Given(args) ==
    IF args = <<>> THEN 0
    ELSE (IF Head(args) = None THEN 0 ELSE 1) + Given(Tail(args))

SetTerrain ==
    \E shape_function \in ShapeFunctions,
       top_surface_function \in TopSurfaceFunctions,
       sharpness \in Sharpnesses,
       offset \in Offsets,
       transformation_matrix \in TransformationMatrices :
        LET r == set_terrain(terrain, shape_function, top_surface_function,
                             sharpness, offset, transformation_matrix)
        IN  /\ Given(<<shape_function, top_surface_function, sharpness, offset,
                       transformation_matrix>>) <= MaxArguments
            /\ terrain' = r.t
            /\ last' = [op |-> "set_terrain",
                        arg |-> [k |-> "terrain",
                                 shape_function |-> shape_function,
                                 top_surface_function |-> top_surface_function,
                                 sharpness |-> sharpness, offset |-> offset,
                                 transformation_matrix |-> transformation_matrix],
                        err |-> r.err, ret |-> None, pushed |-> <<>>,
                        written |-> {}]
            /\ UNCHANGED <<_cost, _solver, _opti_solution, _output_solution,
                           _output_cost, _variables, _options, plotter, hist>>

HeightFunction ==
    /\ terrain' = height_function(terrain)
    /\ last' = [op |-> "height_function", arg |-> None, err |-> NoError,
                ret |-> terrain'.height_function, pushed |-> <<>>, written |-> {}]
    /\ UNCHANGED <<_cost, _solver, _opti_solution, _output_solution,
                   _output_cost, _variables, _options, plotter, hist>>

NextTerrain ==
    \/ SetTerrain
    \/ HeightFunction

SpecTerrain == Init /\ [][NextTerrain]_vars

\* the calls on a FootContactStatePlotter, and the exit of a process it started
\* join() of the tracked process returns once that process has exited
PlotComplementarity ==
    \E states \in StateLists, time_s \in TimeAxes, blocking \in BOOLEAN :
        LET r == plot_complementarity(plotter, states, time_s, blocking)
        IN  /\ IF plotter._ext_process = None THEN TRUE
               ELSE plotter.processes[plotter._ext_process.pid] = "exited"
            /\ Len(r.p.processes) <= MaxProcesses
            /\ plotter' = r.p
            /\ last' = [op |-> "plot_complementarity",
                        arg |-> [k |-> "plot", states |-> states,
                                 time_s |-> time_s, blocking |-> blocking],
                        err |-> r.err, ret |-> None, pushed |-> <<>>,
                        written |-> {}]
            /\ UNCHANGED <<_cost, _solver, _opti_solution, _output_solution,
                           _output_cost, _variables, _options, terrain, hist>>

Close ==
    /\ plotter' = close(plotter)
    /\ last' = [op |-> "close", arg |-> None, err |-> NoError, ret |-> None,
                pushed |-> <<>>, written |-> {}]
    /\ UNCHANGED <<_cost, _solver, _opti_solution, _output_solution,
                   _output_cost, _variables, _options, terrain, hist>>

\* a plot process ends: its window is closed, or the signal of terminate()
\* reaches it
ProcessExits ==
    \E pid \in 1..Len(plotter.processes) :
        /\ is_alive(plotter.processes[pid])
        /\ plotter' = [plotter EXCEPT !.processes[pid] = "exited"]
        /\ last' = [op |-> "process_exit", arg |-> Process(pid), err |-> NoError,
                    ret |-> None, pushed |-> <<>>, written |-> {}]
        /\ UNCHANGED <<_cost, _solver, _opti_solution, _output_solution,
                       _output_cost, _variables, _options, terrain, hist>>

NextPlotter ==
    \/ PlotComplementarity
    \/ Close
    \/ ProcessExits

SpecPlotter == Init /\ [][NextPlotter]_vars

-----------------------------------------------------------------------------
(* The claims *)

SolutionNotAvailable == Raise("SolutionNotAvailableException", "", "")
EngineSolveFailure == Raise("RuntimeError", "Opti_solve", "")

\* C1: as long as no solve() has returned normally, get_values() and
\* get_cost_value() both raise SolutionNotAvailableException.
C1_NoResultBeforeSuccessfulSolve ==
    ~hist.solved =>
        /\ get_values(self).err = SolutionNotAvailable
        /\ get_cost_value(self).err = SolutionNotAvailable

\* C2: a solve() in which the engine's solve fails raises the engine's failure
\* and leaves the cached solution, the cached cost value, the result handle
\* and the live structure as they were.
C2_EngineFailureKeepsResults ==
    [][(last'.op = "solve" /\ last'.err = EngineSolveFailure)
        => /\ _output_solution' = _output_solution
           /\ _output_cost' = _output_cost
           /\ _opti_solution' = _opti_solution
           /\ _variables' = _variables]_vars

C2_Witness ==
    /\ last.op = "solve"
    /\ last.err = EngineSolveFailure
    /\ _output_solution # None
    /\ _output_cost # None

C4_SuccessfulSolveRecordsBoth ==
    (last.op = "solve" /\ ~Failed(last.err)) =>
        /\ hist.solved
        /\ _opti_solution = OptiSol(_solver.solves)
        /\ _output_cost = CostValue(_opti_solution, _cost)
        /\ _output_solution = _generate_solution_output(_variables, _opti_solution).out
        /\ get_values(self).err = NoError
        /\ get_values(self).ret = _output_solution
        /\ get_cost_value(self).err = NoError
        /\ get_cost_value(self).ret = _output_cost

C4_Witness ==
    /\ last.op = "solve"
    /\ ~Failed(last.err)
    /\ IsObj(_variables)
    /\ HasAttr(_variables, "inner")

\* C5: get_values() and get_cost_value() change nothing of the session, the
\* engine's solve count included; once a solve() has returned normally,
\* get_values() returns the cached structure.
C5_GettersAreReadOnly ==
    [][(last'.op \in {"get_values", "get_cost_value"})
        => /\ UNCHANGED <<_cost, _solver, _opti_solution, _output_solution,
                          _output_cost, _variables, _options>>
           /\ (hist.solved /\ last'.op = "get_values")
                  => (last'.err = NoError /\ last'.ret = _output_solution)]_vars

C5_Witness ==
    /\ last.op = "get_values"
    /\ last.err = NoError
    /\ last.ret = _output_solution
    /\ _solver.solves = 1

\* C6: in a session that has been solved, right after a
\* generate_optimization_objects call that returned normally, get_values() and
\* get_cost_value() raise SolutionNotAvailableException (the session is no
\* longer solved, and the solution of the discarded structure is not returned).
C6_GenerateLeavesSolved ==
    (hist.solved /\ last.op = "generate_optimization_objects" /\ ~Failed(last.err)) =>
        /\ get_values(self).err = SolutionNotAvailable
        /\ get_cost_value(self).err = SolutionNotAvailable

SameFieldNames(a, b) ==
    /\ Len(a.f) = Len(b.f)
    /\ \A i \in 1..Len(a.f) : a.f[i].name = b.f[i].name

\* C7: after a top-level generate_optimization_objects(T) that returned
\* normally, the live structure is the structure returned, which is the
\* structure of the whole of T.
C7_LiveStructureIsTheReturnedOne ==
    (last.op = "generate_optimization_objects" /\ ~Failed(last.err)) =>
        /\ get_optimization_objects(self) = last.ret
        /\ IsObj(last.arg) => (IsObj(last.ret) /\ SameFieldNames(last.ret, last.arg))
        /\ IsList(last.arg) => (IsList(last.ret) /\ Len(last.ret.e) = Len(last.arg.e))

C7_Witness ==
    /\ last.op = "generate_optimization_objects"
    /\ ~Failed(last.err)
    /\ last.arg = TplNested
    /\ Len(_solver.symbols) = 4

\* C8: while no generate_optimization_objects call has returned normally,
\* every set_initial_guess call fails and makes no engine call.
C8_GuessNeedsGeneratedObjects ==
    (~hist.generated /\ last.op = "set_initial_guess") =>
        /\ Failed(last.err)
        /\ last.pushed = <<>>

\* C9: a set_initial_guess call that fails against the structure of a generate
\* call that returned normally has made no engine call: no set_initial and no
\* set_value before the offending field.
C9_FailedGuessPushesNothing ==
    (hist.live = "generated" /\ last.op = "set_initial_guess" /\ Failed(last.err))
        => last.pushed = <<>>

\* the shape of a guess after normalising 1-D length N to (N,1)
NormalisedShape(shape) == IF Len(shape) = 1 THEN <<shape[1], 1>> ELSE shape

\* field i of the guess g is a storage field holding an array, and its leaf in v
\* is a symbol
ArrayGuessOfLeaf(g, v, i) ==
    /\ g.f[i].tag \in {VariableTag, ParameterTag}
    /\ IsNdarray(g.f[i].v)
    /\ HasAttr(v, g.f[i].name)
    /\ GetAttr(v, g.f[i].name).k = "mx"

ShapeDiffers(g, v, i) ==
    /\ ArrayGuessOfLeaf(g, v, i)
    /\ NormalisedShape(g.f[i].v.shape) # GetAttr(v, g.f[i].name).shape

\* field i of the guess g is plain data, a leaf with no guess, or an array of
\* the shape of its leaf
FieldIsFine(g, v, i) ==
    \/ g.f[i].tag = "none" /\ g.f[i].v.k = "plain"
    \/ g.f[i].tag \in {VariableTag, ParameterTag} /\ g.f[i].v = None
    \/ ArrayGuessOfLeaf(g, v, i) /\ ~ShapeDiffers(g, v, i)

\* C10: a set_initial_guess call, against the structure of a generate call that
\* returned normally, whose first offending field is an array guess of a shape
\* other than its leaf's fails with the ValueError that names the field
\* ("... its dimension does not match ...").
C10_ShapeMismatchIsNamed ==
    (/\ hist.live = "generated"
     /\ last.op = "set_initial_guess"
     /\ IsObj(last.arg)
     /\ IsObj(_variables)) =>
        \A i \in 1..Len(last.arg.f) :
            (/\ ShapeDiffers(last.arg, _variables, i)
             /\ \A j \in 1..(i - 1) : FieldIsFine(last.arg, _variables, j))
            => last.err = Raise("ValueError", "dimension_does_not_match",
                                last.arg.f[i].name)

\* every field of the guess g is fine against the structure v
GuessIsFine(g, v) ==
    IsObj(g) /\ IsObj(v) /\ \A i \in 1..Len(g.f) : FieldIsFine(g, v, i)

\* the guess list g is bound index-wise to the first Len(g) elements of the
\* symbolic list v, and no other element of v receives a value
BoundIndexWise(g, v, pushed) ==
    /\ \A i \in 1..Len(g) :
           \A n \in 1..Len(pushed) :
               pushed[n].id = GetAttr(v[i], "x").id
                   => pushed[n] = Push("set_initial", GetAttr(v[i], "x"),
                                       GetAttr(g[i], "x"))
    /\ \A i \in 1..Len(g) :
           GetAttr(g[i], "x") # None
               => \E n \in 1..Len(pushed) : pushed[n].id = GetAttr(v[i], "x").id
    /\ \A i \in (Len(g) + 1)..Len(v) :
           \A n \in 1..Len(pushed) : pushed[n].id # GetAttr(v[i], "x").id

\* the call last made is a set_initial_guess of a guess with the list-of-
\* composite field steps against a generated structure with the list steps
GuessOfListField ==
    /\ hist.live = "generated"
    /\ last.op = "set_initial_guess"
    /\ HasAttr(last.arg, "steps")
    /\ HasAttr(_variables, "steps")
    /\ IsList(GetAttr(_variables, "steps"))

\* C11: a guess whose list steps is longer than the symbolic list fails with
\* the ValueError naming the field; a guess list of k well-formed elements
\* against n >= k symbolic elements succeeds, element i bound to symbolic
\* element i for i < k, and symbolic elements k..n-1 receive nothing.
C11_ListFieldLengthRule ==
    GuessOfListField =>
        LET g == GetAttr(last.arg, "steps").e
            v == GetAttr(_variables, "steps").e
        IN  IF Len(g) > Len(v)
            THEN last.err = Raise("ValueError", "guess_list_too_long", "steps")
            ELSE (\A i \in 1..Len(g) : GuessIsFine(g[i], v[i]))
                     => /\ last.err = NoError
                        /\ BoundIndexWise(g, v, last.pushed)

C11_Witness ==
    /\ GuessOfListField
    /\ last.arg = GuessSteps1
    /\ last.err = NoError
    /\ Len(last.pushed) = 1
    /\ Len(GetAttr(_variables, "steps").e) = 3

\* the call last made is a set_initial_guess of a top-level list against a
\* generated top-level list
GuessOfLiveList ==
    /\ hist.live = "generated"
    /\ last.op = "set_initial_guess"
    /\ IsList(last.arg)
    /\ IsList(_variables)

C13_KindMismatchFails ==
    (/\ hist.live = "generated"
     /\ last.op = "set_initial_guess"
     /\ IsList(last.arg) # IsList(_variables)) => Failed(last.err)

\* the engine calls a guess asks for: one per storage leaf, at any depth and
\* list index, whose guess is not None
RECURSIVE GuessLeaves(_, _)
GuessLeaves(g, v) ==
    IF IsList(g)
    THEN UNION {GuessLeaves(g.e[i], v.e[i]) : i \in 1..Len(g.e)}
    ELSE UNION {
        LET field == g.f[i]
        IN  IF field.tag \in {VariableTag, ParameterTag}
            THEN IF field.v = None THEN {}
                 ELSE {Push(IF field.tag = VariableTag THEN "set_initial"
                                                       ELSE "set_value",
                            GetAttr(v, field.name), field.v)}
            ELSE IF IsObj(field.v) \/ IsList(field.v)
            THEN GuessLeaves(field.v, GetAttr(v, field.name))
            ELSE {}
        : i \in 1..Len(g.f)}

\* C14: after a set_initial_guess that returned normally, the engine calls made
\* are exactly those of the storage leaves with a guess, each once: set_initial
\* for a Variable leaf, set_value for a Parameter leaf, nothing for a leaf
\* without a guess or a plain field; the engine holds these values.
C14_PushedAreTheGuessedLeaves ==
    (/\ hist.live = "generated"
     /\ last.op = "set_initial_guess"
     /\ last.err = NoError) =>
        LET expected == GuessLeaves(last.arg, _variables)
        IN  /\ {last.pushed[n] : n \in 1..Len(last.pushed)} = expected
            /\ Len(last.pushed) = Cardinality(expected)
            /\ \A p \in expected :
                   /\ p \in _solver.initial
                   /\ \E h \in {_solver.symbols[n] : n \in 1..Len(_solver.symbols)} :
                          /\ h.id = p.id
                          /\ h.st = (IF p.call = "set_initial" THEN VariableTag
                                                               ELSE ParameterTag)

C14_Witness ==
    /\ hist.live = "generated"
    /\ last.op = "set_initial_guess"
    /\ last.err = NoError
    /\ last.arg = GuessFlat
    /\ Len(last.pushed) = 2

\* the owners of the objects a value is made of
RECURSIVE Owners(_)
Owners(v) ==
    IF IsObj(v) THEN {v.at} \cup UNION {Owners(v.f[i].v) : i \in 1..Len(v.f)}
    ELSE IF IsList(v) THEN {v.at} \cup UNION {Owners(v.e[i]) : i \in 1..Len(v.e)}
    ELSE {}

GenerateCalled == last.op = "generate_optimization_objects"

\* C15: a generate_optimization_objects call, whether it returns or raises,
\* assigns no attribute and no element of an object of the caller's template,
\* and the structure it returns is made of no object of the template.
C15_TemplateIsNeverMutated ==
    GenerateCalled =>
        /\ "caller" \notin last.written
        /\ ~Failed(last.err) => "caller" \notin Owners(last.ret)

C15_Witness ==
    /\ GenerateCalled
    /\ last.arg = TplNestedBad
    /\ Failed(last.err)
    /\ last.written = {"copy"}

\* s is t with every storage leaf replaced by a symbol of the leaf's
\* normalised shape: same field names and tags in the same order, same
\* nesting, lists of the same length, plain values as they were (tagged: t is
\* the value of a storage-tagged field)
RECURSIVE Isomorphic(_, _, _)
Isomorphic(t, s, tagged) ==
    IF IsObj(t)
    THEN /\ IsObj(s)
         /\ Len(s.f) = Len(t.f)
         /\ \A i \in 1..Len(t.f) :
                /\ s.f[i].name = t.f[i].name
                /\ s.f[i].tag = t.f[i].tag
                /\ Isomorphic(t.f[i].v, s.f[i].v, t.f[i].tag # "none")
    ELSE IF IsList(t)
    THEN /\ IsList(s)
         /\ Len(s.e) = Len(t.e)
         /\ \A i \in 1..Len(t.e) : Isomorphic(t.e[i], s.e[i], tagged)
    ELSE IF tagged
    THEN IsNdarray(t) /\ s.k = "mx" /\ s.shape = NormalisedShape(t.shape)
    ELSE s = t

\* C16: the structure generate_optimization_objects(T) returns is isomorphic
\* to T: same field names at every level, same nesting, every list of the same
\* length in the same order, every storage leaf a handle of the shape of T's
\* value; nothing added, renamed or dropped.
C16_ReturnedIsIsomorphic ==
    (GenerateCalled /\ ~Failed(last.err)) => Isomorphic(last.arg, last.ret, FALSE)

C16_Witness ==
    /\ GenerateCalled
    /\ ~Failed(last.err)
    /\ last.arg = TplListField
    /\ Len(GetAttr(last.ret, "steps").e) = 3

\* what a walk of the template t in field order asks of the solver: the
\* handles [st, shape] requested up to the first storage leaf that cannot be
\* generated, and why the walk ended there ("shape": the value is None or of
\* rank 3 or more; "role": the role is neither Variable nor Parameter)
Walked(req, end, field) == [req |-> req, end |-> end, field |-> field]

RECURSIVE Walk(_, _)
RECURSIVE WalkFields(_, _, _)
RECURSIVE WalkElems(_, _, _)
RECURSIVE WalkValues(_, _, _, _)

WalkValues(field, values, j, req) ==
    IF j > Len(values) THEN Walked(req, "ok", "")
    ELSE IF values[j] = None \/ (IsNdarray(values[j]) /\ Len(values[j].shape) > 2)
    THEN Walked(req, "shape", field.name)
    ELSE IF field.tag \notin {VariableTag, ParameterTag}
    THEN Walked(req, "role", field.name)
    ELSE WalkValues(field, values, j + 1,
                    Append(req, [st |-> field.tag,
                                 shape |-> NormalisedShape(values[j].shape)]))

WalkFields(fields, i, req) ==
    IF i > Len(fields) THEN Walked(req, "ok", "")
    ELSE LET field == fields[i]
             w == IF IsObj(field.v) \/ GenListOfObjects(field.v)
                  THEN Walk(field.v, req)
                  ELSE IF field.tag = "none" THEN Walked(req, "ok", "")
                  ELSE WalkValues(field, IF IsList(field.v) THEN field.v.e
                                         ELSE <<field.v>>, 1, req)
         IN  IF w.end # "ok" THEN w ELSE WalkFields(fields, i + 1, w.req)

WalkElems(elems, i, req) ==
    IF i > Len(elems) THEN Walked(req, "ok", "")
    ELSE LET w == Walk(elems[i], req)
         IN  IF w.end # "ok" THEN w ELSE WalkElems(elems, i + 1, w.req)

Walk(t, req) ==
    IF IsObj(t) THEN WalkFields(t.f, 1, req)
    ELSE IF IsList(t) THEN WalkElems(t.e, 1, req)
    ELSE Walked(req, "ok", "")

\* the symbols the solver was asked for between two states
NewSymbols(before, after) == SubSeq(after, Len(before) + 1, Len(after))

ShapeErrors ==
    {Raise("ValueError", m, f) : m \in {"storage_is_none", "ndim_greater_than_2"},
                                 f \in {"x", "y", "p", "a", "z", "w", "c"}}

\* C17: in every generate_optimization_objects call the handles requested have,
\* in order, the shapes of the template's storage values, (N,1) for a 1-D value
\* of length N and (R,C) for a 2-D value; a storage value that is None or of
\* rank 3 or more makes the call fail with the ValueError naming the field,
\* no handle being requested for it.
C17_HandleShapes ==
    [][(last'.op = "generate_optimization_objects") =>
        LET w == Walk(last'.arg, <<>>)
            new == NewSymbols(_solver.symbols, _solver'.symbols)
        IN  /\ Len(new) = Len(w.req)
            /\ \A n \in 1..Len(new) : new[n].shape = w.req[n].shape
            /\ w.end = "shape" => (/\ last'.err \in ShapeErrors
                                   /\ last'.err.field = w.field)]_vars

C17_Witness ==
    /\ GenerateCalled
    /\ last.arg = TplRank3
    /\ last.err = Raise("ValueError", "ndim_greater_than_2", "x")
    /\ _solver.symbols[Len(_solver.symbols)].shape = <<3, 1>>

\* C18: in every generate_optimization_objects call each storage leaf gets one
\* handle, new to the solver: a decision variable for a Variable field, a
\* parameter for a Parameter field, in the order of the walk; a storage field
\* of any other role makes the call fail with the ValueError of the
\* unsupported storage type.
C18_OneHandlePerLeaf ==
    [][(last'.op = "generate_optimization_objects") =>
        LET w == Walk(last'.arg, <<>>)
            new == NewSymbols(_solver.symbols, _solver'.symbols)
        IN  /\ SubSeq(_solver'.symbols, 1, Len(_solver.symbols)) = _solver.symbols
            /\ Len(new) = Len(w.req)
            /\ \A n \in 1..Len(new) :
                   /\ new[n].st = w.req[n].st
                   /\ \A m \in 1..Len(_solver'.symbols) :
                          _solver'.symbols[m].id = new[n].id
                              => m = Len(_solver.symbols) + n
            /\ w.end = "role" => last'.err = Raise("ValueError",
                                                   "unsupported_storage_type", w.field)]_vars

C18_Witness ==
    /\ GenerateCalled
    /\ last.arg = TplFlat
    /\ ~Failed(last.err)
    /\ Len(_solver.symbols) = 4
    /\ GetAttr(last.ret, "x") = MX(3, VariableTag, <<4, 1>>)
    /\ GetAttr(last.ret, "p") = MX(4, ParameterTag, <<1, 1>>)

\* every field of the record t is plain data: it has no storage tag and its
\* value is neither a composite nor a list of composites
OnlyPlainData(t) ==
    /\ IsObj(t)
    /\ \A i \in 1..Len(t.f) :
           /\ t.f[i].tag = "none"
           /\ ~IsObj(t.f[i].v)
           /\ ~(IsList(t.f[i].v) /\ \E j \in 1..Len(t.f[i].v.e) : IsObj(t.f[i].v.e[j]))

\* C19: generate_optimization_objects(T) of a T with plain fields only returns
\* a deep copy of T and asks the solver for no handle.
C19_PlainTemplateIsCopied ==
    [][(last'.op = "generate_optimization_objects" /\ OnlyPlainData(last'.arg)) =>
        /\ last'.err = NoError
        /\ last'.ret = deepcopy(last'.arg)
        /\ _solver'.symbols = _solver.symbols]_vars

\* the record t has a storage-tagged field whose value is a composite or a
\* list of composites
AmbiguousField(t) ==
    /\ IsObj(t)
    /\ \E i \in 1..Len(t.f) :
           /\ t.f[i].tag # "none"
           /\ IsObj(t.f[i].v) \/ ListOfObjects(t.f[i].v)

\* C20: generate_optimization_objects rejects a template with a storage-tagged
\* field whose value is a composite or a list of composites.
C20_AmbiguousFieldIsRejected ==
    (GenerateCalled /\ AmbiguousField(last.arg)) => Failed(last.err)

\* the symbols a value holds, at any depth
RECURSIVE Handles(_)
Handles(v) ==
    IF IsObj(v) THEN UNION {Handles(v.f[i].v) : i \in 1..Len(v.f)}
    ELSE IF IsList(v) THEN UNION {Handles(v.e[i]) : i \in 1..Len(v.e)}
    ELSE IF v.k = "mx" THEN {v}
    ELSE {}

\* n is v with every symbol replaced by the array the result sol holds for it:
\* same field names, nesting and list lengths
RECURSIVE Populated(_, _, _)
Populated(v, n, sol) ==
    IF IsObj(v)
    THEN /\ IsObj(n)
         /\ Len(n.f) = Len(v.f)
         /\ \A i \in 1..Len(v.f) : /\ n.f[i].name = v.f[i].name
                                   /\ Populated(v.f[i].v, n.f[i].v, sol)
    ELSE IF IsList(v)
    THEN /\ IsList(n)
         /\ Len(n.e) = Len(v.e)
         /\ \A i \in 1..Len(v.e) : Populated(v.e[i], n.e[i], sol)
    ELSE IF v.k = "mx"
    THEN IsNdarray(n) /\ n.sol = sol /\ n.of = v.id
    ELSE n = v

\* C21: the solution structure of a solve() that returned normally is the live
\* structure with every symbol, at any depth and in every list, replaced by its
\* array of the solve result; no symbol is left in it.
C21_SolutionIsFullyPopulated ==
    (last.op = "solve" /\ ~Failed(last.err)) =>
        /\ Populated(_variables, _output_solution, _opti_solution)
        /\ Handles(_output_solution) = {}

\* C22: in every state the accumulated cost is the sum, in order, of the
\* expressions given to add_cost so far (none before the first call), whatever
\* other operations came in between; no other operation changes it.
C22_CostIsTheSumOfTheTerms ==
    /\ hist.costs = <<>> => _cost = None
    /\ hist.costs # <<>> => _cost = Expr(hist.costs)

C22_Witness ==
    /\ last.op = "solve"
    /\ _cost = Expr(<<"a", "b">>)
    /\ _solver.solves = 2
    /\ _solver.constraints # <<>>
    /\ _variables # None

\* t begins with s
IsPrefix(s, t) == Len(s) <= Len(t) /\ SubSeq(t, 1, Len(s)) = s

\* C23: add_constraint appends the expression to the solver's constraints at
\* once, in any state, and no step of the session removes or reorders a
\* constraint registered earlier.
C23_ConstraintsAreAppendOnly ==
    [][/\ IsPrefix(_solver.constraints, _solver'.constraints)
       /\ (last'.op = "add_constraint")
              => /\ last'.err = NoError
                 /\ _solver'.constraints = Append(_solver.constraints, last'.arg.d)]_vars

C23_Witness ==
    /\ _solver.constraints = <<"g", "h">>
    /\ last.op = "solve"
    /\ Failed(last.err)
    /\ hist.solved
    /\ _options.inner_solver # DefaultSolverType

\* the option stored after a call that was given the argument given
Supplied(given, stored) == IF given # None THEN given ELSE stored

\* C24: set_opti_options, in any state, replaces the options it is given and
\* keeps the stored value of those left out, applies the three to the solver at
\* once, solves nothing, and leaves the cost, the live structure and the cached
\* results as they were.
C24_OptionsFrame ==
    [][(last'.op = "set_opti_options") =>
        /\ last'.err = NoError
        /\ _options'.inner_solver = Supplied(last'.arg.inner_solver,
                                             _options.inner_solver)
        /\ _options'.options_solver = Supplied(last'.arg.options_solver,
                                               _options.options_solver)
        /\ _options'.options_plugin = Supplied(last'.arg.options_plugin,
                                               _options.options_plugin)
        /\ _solver'.options = _options'
        /\ _solver' = [_solver EXCEPT !.options = _options']
        /\ UNCHANGED <<_cost, _variables, _opti_solution, _output_solution,
                       _output_cost>>]_vars

C24_Witness ==
    /\ last.op = "set_opti_options"
    /\ last.arg.inner_solver = None
    /\ last.arg.options_solver # None
    /\ last.arg.options_plugin = None
    /\ _options.inner_solver # DefaultSolverType
    /\ hist.solved

\* C25: in every state get_values() succeeds if and only if get_cost_value()
\* succeeds.
C25_ResultsComeTogether ==
    (get_values(self).err = NoError) <=> (get_cost_value(self).err = NoError)

\* C26: a generate_optimization_objects call that fails leaves the live
\* structure as it was before the call.
C26_FailedGenerateKeepsLive ==
    [][(last'.op = "generate_optimization_objects" /\ Failed(last'.err))
        => _variables' = _variables]_vars

\* the three walks take every field of the template t, of the structure s
\* generated from it and of t given as a guess for the same thing, at every
\* depth
RECURSIVE RolesAgree(_, _)
RolesAgree(t, s) ==
    IF IsObj(t)
    THEN \A i \in 1..Len(t.f) :
             /\ GeneratorRole(t.f[i]) = ExtractorRole(s.f[i])
             /\ GeneratorRole(t.f[i]) = BinderRole(t.f[i])
             /\ GeneratorRole(t.f[i]) = "composite" => RolesAgree(t.f[i].v, s.f[i].v)
    ELSE IF IsList(t)
    THEN \A i \in 1..Len(t.e) : RolesAgree(t.e[i], s.e[i])
    ELSE TRUE

\* C27: for every template generated, the generator, the binder and the
\* extractor take every field for the same thing: a storage leaf, a composite
\* to recurse into, or a value to ignore.
C27_WalksAgreeOnRoles ==
    (GenerateCalled /\ ~Failed(last.err)) => RolesAgree(last.arg, last.ret)


\* C28: a set_terrain call that raises leaves the five stored parameters of the
\* terrain as they were, and a call that changes one of them leaves no height
\* function cached.
C28_SetTerrainIsAllOrNothing ==
    [][last'.op = "set_terrain"
        => /\ Failed(last'.err)
                => TerrainParameters(terrain') = TerrainParameters(terrain)
           /\ TerrainParameters(terrain') # TerrainParameters(terrain)
                => terrain'.height_function = None]_vars

\* the processes of the plotter that have not exited
AliveProcesses ==
    {pid \in 1..Len(plotter.processes) : is_alive(plotter.processes[pid])}

\* C29: at most one process started by the plotter is alive at a time; a
\* plot_complementarity call that raises, or that is given no state, starts no
\* process; close() leaves no handle; and no call on the plotter changes the
\* session.
C29_OnePlotProcessAtATime ==
    [][last'.op \in {"plot_complementarity", "close", "process_exit"}
        => /\ Cardinality(AliveProcesses') <= 1
           /\ (last'.op = "plot_complementarity"
               /\ (Failed(last'.err) \/ len(last'.arg.states) = 0))
                => /\ plotter'.processes = plotter.processes
                   /\ plotter'._ext_process = None
           /\ last'.op = "close" => plotter'._ext_process = None
           /\ UNCHANGED <<_cost, _solver, _opti_solution, _output_solution,
                          _output_cost, _variables, _options>>]_vars

====
